---- MODULE Spec2Model ----
(***************************************************************************)
(* A model of src/EDA.py: the exploratory-data-analysis helpers            *)
(* get_cat_num_df, get_details, get_null_df, get_outliers and plot_eda.    *)
(*                                                                         *)
(* A table (pandas.DataFrame) is a record [nrows, cols]; cols is the       *)
(* sequence of its columns in table order, each [name, dtype, vals] with   *)
(* Len(vals) = nrows.  Column names are distinct.  A cell is               *)
(* [isna, v]: a missing value (NaN / None / NaT) or the value v.  Object   *)
(* and datetime values are opaque and carried as integer codes.            *)
(*                                                                         *)
(* Floating point results are exact here: a float is [isna, e] with e the  *)
(* value in eighths (e = 8 * x).  Quartiles of integer data are multiples  *)
(* of 1/4 and the fences multiples of 1/8, all of them exactly             *)
(* representable doubles, so eighths reproduce numpy's arithmetic bit for  *)
(* bit on the inputs drawn below.  The null percentage (nulls / L) * 100   *)
(* is carried as the fraction [num, den] = [nulls * 100, L].               *)
(*                                                                         *)
(* Library behaviour the source relies on is modelled where the source     *)
(* calls it, error paths included: is_numeric_dtype, is_object_dtype,      *)
(* isna, np.percentile (which raises on a column without rows and on bool  *)
(* data), DataFrame.drop, plt.subplots and plt.show, and the figures that  *)
(* pyplot keeps registered between calls.                                  *)
(***************************************************************************)
EXTENDS Integers, Sequences, FiniteSets

VARIABLES
    df,      \* the caller's table
    df0,     \* the table as the caller built it (never written by any action)
    call,    \* the last call: [fn, target, plot_type]
    result,  \* what the last call returned or raised: [exc, val]
    calls,   \* the number of calls made so far
    figures  \* the number of figures registered in matplotlib.pyplot

vars == <<df, df0, call, result, calls, figures>>

-----------------------------------------------------------------------------
(* Bounds of the model. *)

\* columns of a table in the general family (Spec)
MaxCols == 2
\* rows of a table in the general family (Spec)
MaxRows == 2
\* columns of a table in the dtype-only family (SpecClassify)
MaxClsCols == 4
\* rows of the one-column numeric tables (SpecOutliers)
MaxColLen == 5
\* columns and rows of the several-column tables of SpecOutliers
MaxOutCols == 2
MaxOutRows == 4
\* columns of a table in the wide family (SpecPlot)
MaxPlotCols == 8
\* calls made on one table
MaxCalls == 2

-----------------------------------------------------------------------------
(* Values. *)

NaN == [isna |-> TRUE, v |-> 0]
Val(x) == [isna |-> FALSE, v |-> x]

\* a float, in eighths
FNaN == [isna |-> TRUE, e |-> 0]
F8(e) == [isna |-> FALSE, e |-> e]
\* the float of a cell of a numeric column
FloatOf(c) == IF c.isna THEN FNaN ELSE F8(8 * c.v)

FSub(a, b) == IF a.isna \/ b.isna THEN FNaN ELSE F8(a.e - b.e)
FAdd(a, b) == IF a.isna \/ b.isna THEN FNaN ELSE F8(a.e + b.e)
\* x * 1.5 (x a multiple of 1/4, so the product is a whole number of eighths)
FMul15(a) == IF a.isna THEN FNaN ELSE F8((a.e * 3) \div 2)
\* IEEE comparisons: every comparison with NaN is false, except !=
FGt(a, b) == ~a.isna /\ ~b.isna /\ a.e > b.e
FLt(a, b) == ~a.isna /\ ~b.isna /\ a.e < b.e
FNeZero(a) == a.isna \/ a.e # 0

\* the column names by position: table order is not alphabetical order
ColumnNames == <<"b", "a", "d", "c", "f", "e", "h", "g", "j", "i", "l", "k">>

NoCall == [fn |-> "init", target |-> "", plot_type |-> ""]
NoResult == [exc |-> "none", val |-> "none"]

-----------------------------------------------------------------------------
(* pandas / numpy primitives used by the source. *)

\* pandas.api.types.is_numeric_dtype(df[col]): np.number or np.bool_
is_numeric_dtype(col) == col.dtype \in {"int64", "float64", "bool"}

\* pandas.api.types.is_object_dtype(df[col])
is_object_dtype(col) == col.dtype = "object"

\* df[col].isna(): the positions of col holding a missing value
isna(col) == {i \in 1..Len(col.vals) : col.vals[i].isna}

RECURSIVE Insert(_, _)
Insert(x, s) ==
    IF s = <<>> THEN <<x>>
    ELSE IF FGt(Head(s), x) THEN <<x>> \o s
    ELSE <<Head(s)>> \o Insert(x, Tail(s))

RECURSIVE SortFloats(_)
SortFloats(s) == IF s = <<>> THEN <<>> ELSE Insert(Head(s), SortFloats(Tail(s)))

\* the 'linear' quantile of the floats fs, none of them NaN: with the data sorted
\* and the virtual index (n - 1) * q / 100, the lerp of its two neighbours
linear_quantile(fs, q) ==
    LET n == Len(fs)
        sorted == SortFloats(fs)
        vi == (n - 1) * q
        prev == vi \div 100
        gamma == vi % 100
        next == IF prev + 1 > n - 1 THEN n - 1 ELSE prev + 1
        lo == sorted[prev + 1]
        hi == sorted[next + 1]
    IN  F8(lo.e + ((hi.e - lo.e) * gamma) \div 100)

\* the values of a column as floats
floats(col) == [i \in 1..Len(col.vals) |-> FloatOf(col.vals[i])]

\* what np.percentile raises before it computes anything: IndexError on data
\* without rows (index -1 of an empty axis), TypeError on bool data (the
\* interpolation subtracts two booleans)
percentile_raises(col) ==
    IF Len(col.vals) = 0 THEN "IndexError"
    ELSE IF col.dtype = "bool" THEN "TypeError"
    ELSE "none"

\* np.nanpercentile(a, q): the quantile of the values that are not NaN
nanpercentile(col, q) ==
    LET kept == SelectSeq(floats(col), LAMBDA f : ~f.isna)
    IN  IF percentile_raises(col) # "none"
        THEN [exc |-> percentile_raises(col), val |-> FNaN]
        ELSE [exc |-> "none",
              val |-> IF kept = <<>> THEN FNaN ELSE linear_quantile(kept, q)]

\* np.percentile(a, q): raises, or returns NaN when a holds a NaN, else the
\* 'linear' quantile
percentile(col, q) ==
    IF percentile_raises(col) # "none"
    THEN [exc |-> percentile_raises(col), val |-> FNaN]
    ELSE [exc |-> "none",
          val |-> IF \E i \in 1..Len(col.vals) : col.vals[i].isna THEN FNaN
                  ELSE linear_quantile(floats(col), q)]

-----------------------------------------------------------------------------
(* get_cat_num_df *)

RECURSIVE cat_num_loop(_, _, _, _)
\* the loop of lines 21-25 from column i on
cat_num_loop(cs, i, num_df, cat_df) ==
    IF i > Len(cs) THEN <<num_df, cat_df>>
    ELSE cat_num_loop(cs, i + 1,
             IF is_numeric_dtype(cs[i]) THEN Append(num_df, cs[i].name) ELSE num_df,
             IF is_object_dtype(cs[i]) THEN Append(cat_df, cs[i].name) ELSE cat_df)

RECURSIVE cat_num_loop_untested(_, _, _, _)
\* the loop with the second test dropped: every column is appended to cat_df
cat_num_loop_untested(cs, i, num_df, cat_df) ==
    IF i > Len(cs) THEN <<num_df, cat_df>>
    ELSE cat_num_loop_untested(cs, i + 1,
             IF is_numeric_dtype(cs[i]) THEN Append(num_df, cs[i].name) ELSE num_df,
             Append(cat_df, cs[i].name))

get_cat_num_df_untested(t) == cat_num_loop_untested(t.cols, 1, <<>>, <<>>)

\* get_cat_num_df(df): <<num_df, cat_df>>
get_cat_num_df(t) == cat_num_loop(t.cols, 1, <<>>, <<>>)

-----------------------------------------------------------------------------
(* Table access. *)

\* df.columns
columns(t) == [i \in 1..Len(t.cols) |-> t.cols[i].name]

\* df[col]: the column named col
getitem(t, col) == t.cols[CHOOSE i \in 1..Len(t.cols) : t.cols[i].name = col]

\* len(df)
len(t) == t.nrows

RECURSIVE drop_loop(_, _, _)
drop_loop(cs, i, target) ==
    IF i > Len(cs) THEN <<>>
    ELSE (IF cs[i].name = target THEN <<>> ELSE <<cs[i]>>) \o drop_loop(cs, i + 1, target)

\* df.drop(columns=target): a new table without the column target
drop(t, target) == [nrows |-> t.nrows, cols |-> drop_loop(t.cols, 1, target)]

-----------------------------------------------------------------------------
(* get_details: returns None; the four printed numbers are kept in val. *)

get_details(t) ==
    LET cn == get_cat_num_df(t)
    IN  [samples |-> len(t),
         features |-> Len(columns(t)),
         categorical |-> Len(cn[2]),
         numerical |-> Len(cn[1])]

-----------------------------------------------------------------------------
(* get_null_df *)

RECURSIVE any_isna_loop(_, _)
\* df.columns[df.isna().any()].to_list() from column i on
any_isna_loop(cs, i) ==
    IF i > Len(cs) THEN <<>>
    ELSE (IF isna(cs[i]) # {} THEN <<cs[i].name>> ELSE <<>>) \o any_isna_loop(cs, i + 1)

\* the count taken over df[col].notna()
count_notna(t, col) == len(t) - Cardinality(isna(getitem(t, col)))

\* len(df[df[col].isna() == True][col])
count_isna(t, col) == Cardinality(isna(getitem(t, col)))

\* the divisor taken as the number of values present
pct_divisor_present(t, nulls) == len(t) - nulls

\* the divisor L of the '%' field
pct_divisor(t, nulls) == len(t)

\* the label with the dtype test of line 24 in place of that of line 72
type_label_by_object(c) == IF is_object_dtype(c) THEN "Categorical" ELSE "Numerical"

\* the label T of lines 71-75
type_label(c) == IF is_numeric_dtype(c) THEN "Numerical" ELSE "Categorical"

\* the row null_df.loc[i] of lines 76-80
null_row(t, col) ==
    LET T == type_label(getitem(t, col))
        nulls == count_isna(t, col)
    IN  [Column |-> col,
         Type |-> T,
         TotalNaN |-> nulls,
         Pct |-> [num |-> nulls * 100, den |-> pct_divisor(t, nulls)]]

\* get_null_df(df): the rows of null_df, in index order
get_null_df(t) ==
    LET col_null == any_isna_loop(t.cols, 1)
    IN  [i \in 1..Len(col_null) |-> null_row(t, col_null[i])]

-----------------------------------------------------------------------------
(* get_outliers *)

\* df[df[col] > upper].shape[0]
count_gt(c, upper) == Cardinality({i \in 1..Len(c.vals) : FGt(FloatOf(c.vals[i]), upper)})

\* df[df[col] < lower].shape[0]
count_lt(c, lower) == Cardinality({i \in 1..Len(c.vals) : FLt(FloatOf(c.vals[i]), lower)})

\* the fences with cutoff = iqr
fences_plain_iqr(c) ==
    LET p25 == percentile(c, 25)
        p75 == percentile(c, 75)
        first_quartile == p25.val
        third_quartile == p75.val
        iqr == FSub(third_quartile, first_quartile)
        lower == FSub(first_quartile, iqr)
        upper == FAdd(third_quartile, iqr)
    IN  IF p25.exc # "none" THEN [exc |-> p25.exc, lower |-> FNaN, upper |-> FNaN, total |-> 0]
        ELSE IF p75.exc # "none" THEN [exc |-> p75.exc, lower |-> FNaN, upper |-> FNaN, total |-> 0]
        ELSE [exc |-> "none", lower |-> lower, upper |-> upper,
              total |-> count_lt(c, lower) + count_gt(c, upper)]

\* lines 110-118 for one column: the exception of np.percentile, or the fences
\* and the count
fences(c) ==
    LET p25 == percentile(c, 25)
        p75 == percentile(c, 75)
        first_quartile == p25.val
        third_quartile == p75.val
        iqr == FSub(third_quartile, first_quartile)
        cutoff == FMul15(iqr)
        lower == FSub(first_quartile, cutoff)
        upper == FAdd(third_quartile, cutoff)
    IN  IF p25.exc # "none" THEN [exc |-> p25.exc, lower |-> FNaN, upper |-> FNaN, total |-> 0]
        ELSE IF p75.exc # "none" THEN [exc |-> p75.exc, lower |-> FNaN, upper |-> FNaN, total |-> 0]
        ELSE [exc |-> "none", lower |-> lower, upper |-> upper,
              total |-> count_lt(c, lower) + count_gt(c, upper)]

\* the test of line 119
emits(f) == f.total # 0 /\ (FNeZero(f.upper) /\ FNeZero(f.lower))

RECURSIVE outliers_loop(_, _, _, _)
\* the loop of lines 109-128 from num_feat[i] on: the exception that ends it,
\* or the report
outliers_loop(t, num_feat, i, outlier_df) ==
    IF i > Len(num_feat) THEN [exc |-> "none", val |-> outlier_df]
    ELSE LET col == num_feat[i]
             f == fences(getitem(t, col))
         IN  IF f.exc # "none" THEN [exc |-> f.exc, val |-> "none"]
             ELSE outliers_loop(t, num_feat, i + 1,
                      IF emits(f)
                      THEN Append(outlier_df, [Feature |-> col,
                                               TotalOutliers |-> f.total,
                                               UpperLimit |-> f.upper,
                                               LowerLimit |-> f.lower])
                      ELSE outlier_df)

\* get_outliers(df): the exception raised, or the rows of outlier_df in index order
get_outliers(t) == outliers_loop(t, get_cat_num_df(t)[1], 1, <<>>)

-----------------------------------------------------------------------------
(* plot_eda *)

PlotTypes == {"scatter", "box", "hist"}

\* the Axes.set_title text of lines 175, 178, 181 for feature i (0-based)
title(plot_type, num_feat, i) ==
    IF plot_type \in {"scatter", "hist"} THEN [text |-> "Feature", n |-> i + 1]
    ELSE IF plot_type = "box" THEN [text |-> num_feat[i + 1], n |-> 0]
    ELSE [text |-> "", n |-> 0]

\* what plt.subplots(nrows, ncols) returns as axs (squeeze=True): one Axes,
\* a 1-D array or a 2-D array; it raises ValueError for an empty grid
subplots(nrows, ncols) ==
    IF nrows < 1 \/ ncols < 1 THEN "ValueError"
    ELSE IF nrows = 1 /\ ncols = 1 THEN "Axes"
    ELSE IF nrows = 1 \/ ncols = 1 THEN "1-D"
    ELSE "2-D"

RECURSIVE plot_loop(_, _, _, _, _, _)
\* the loop of lines 167-183 from feature i (0-based) on, axs a 2-D array
plot_loop(num_feat, plot_type, nrows, ncols, i, drawn) ==
    IF i >= Len(num_feat) THEN drawn
    ELSE IF i >= nrows * ncols THEN drawn
    ELSE plot_loop(num_feat, plot_type, nrows, ncols, i + 1,
             Append(drawn, [cell |-> <<i \div ncols, i % ncols>>,
                            feature |-> num_feat[i + 1],
                            plot |-> IF plot_type \in PlotTypes THEN plot_type ELSE "none",
                            title |-> title(plot_type, num_feat, i),
                            ylabel |-> "Target"]))

\* the loop of lines 186-189: the cells made invisible
hide_loop(n, nrows, ncols) ==
    [k \in 1..(nrows * ncols - n) |-> <<(n + k - 1) \div ncols, (n + k - 1) % ncols>>]

\* plot_eda(df, target, plot_type): the exception raised, or the figure shown
plot_eda(t, target, plot_type) ==
    IF \A i \in 1..Len(t.cols) : t.cols[i].name # target
    THEN [exc |-> "KeyError", val |-> "none"]
    ELSE
    LET df_x == drop(t, target)
        num_feat == get_cat_num_df(df_x)[1]
        n == Len(num_feat)
        nrows == (n - 1) \div 5 + 1
        ncols == IF n < 5 THEN n ELSE 5
        axs == subplots(nrows, ncols)
    IN  IF axs = "ValueError" THEN [exc |-> "ValueError", val |-> "none"]
        ELSE IF n > 0 /\ axs = "Axes" THEN [exc |-> "TypeError", val |-> "none"]
        ELSE IF n > 0 /\ axs = "1-D" THEN [exc |-> "IndexError", val |-> "none"]
        ELSE [exc |-> "none",
              val |-> [nrows |-> nrows,
                       ncols |-> ncols,
                       drawn |-> plot_loop(num_feat, plot_type, nrows, ncols, 0, <<>>),
                       hidden |-> hide_loop(n, nrows, ncols)]]

\* the numbers of figures pyplot may hold after a plot_eda call made when it
\* held figs.  plt.subplots (line 164) registers the figure before it lays out
\* the grid, so a call that raises there or at line 172 leaves one more open.
\* plt.show (line 192) closes every registered figure under an interactive or
\* inline backend, this call's and those earlier calls left, and closes none
\* under a non-interactive backend.
figures_left(res, figs) ==
    IF res.exc = "KeyError" THEN {figs}
    ELSE IF res.exc = "none" THEN {0, figs + 1}
    ELSE {figs + 1}

-----------------------------------------------------------------------------
(* The tables the calls are made on. *)

Table(k, r, f) ==
    [nrows |-> r,
     cols |-> [i \in 1..k |-> [name |-> ColumnNames[i], dtype |-> f[i].dtype, vals |-> f[i].vals]]]

\* the columns of dtype d and r rows over the cells Cells
Contents(d, r, Cells) == {[dtype |-> d, vals |-> v] : v \in [1..r -> Cells]}

\* df is a table of k in ks columns and r in rs rows, its columns drawn from C(r)
DrawTable(ks, rs, C(_)) ==
    \E k \in ks, r \in rs : \E f \in [1..k -> C(r)] : df = Table(k, r, f)

\* pd.DataFrame(): no column, no row
EmptyTable == [nrows |-> 0, cols |-> <<>>]

\* general family: numeric, object and datetime columns with missing values
GenContents(r) ==
    UNION {Contents(d, r, {Val(1), NaN}) : d \in {"float64", "object", "datetime64"}}
    \cup Contents("bool", r, {Val(1)})

GenTables == DrawTable(0..MaxCols, 0..MaxRows, GenContents)

\* dtype-only family: one row, every dtype
ClsContents(r) ==
    UNION {Contents(d, r, {Val(1)}) :
              d \in {"int64", "float64", "bool", "object", "datetime64", "category"}}

ClsTables == DrawTable(0..MaxClsCols, {1}, ClsContents)

\* outlier families: one float column over values that include the fences'
\* cases, and several columns (integer, bool, object, datetime)
OutValues == {Val(0), Val(1), Val(2), Val(3), Val(4), Val(100), NaN}

OutContentsOne(r) == Contents("float64", r, OutValues)

OutTablesOne == DrawTable({1}, 0..MaxColLen, OutContentsOne)

OutContents(r) ==
    Contents("int64", r, {Val(3), Val(11)})
    \cup Contents("bool", r, {Val(1)})
    \cup Contents("object", r, {Val(1)})
    \cup Contents("datetime64", r, {Val(1)})

OutTablesMany == DrawTable(0..MaxOutCols, 0..MaxOutRows, OutContents)

\* wide family: one row, numeric and object columns
PlotContents(r) == Contents("float64", r, {Val(1)}) \cup Contents("object", r, {Val(1)})

PlotTables == DrawTable(0..MaxPlotCols, {1}, PlotContents)

-----------------------------------------------------------------------------
(* The state machine: a caller holding a table and calling the functions. *)

InitOn(tables) ==
    /\ tables
    /\ df0 = df
    /\ call = NoCall
    /\ result = NoResult
    /\ calls = 0
    /\ figures = 0

\* a call of fn that reads the table and ends in res
Ends(fn, res) ==
    /\ calls < MaxCalls
    /\ calls' = calls + 1
    /\ call' = [fn |-> fn, target |-> "", plot_type |-> ""]
    /\ result' = res
    /\ UNCHANGED <<df, df0, figures>>

Returned(value) == [exc |-> "none", val |-> value]

Call_get_cat_num_df == Ends("get_cat_num_df", Returned(get_cat_num_df(df)))

Call_get_details == Ends("get_details", Returned(get_details(df)))

Call_get_null_df == Ends("get_null_df", Returned(get_null_df(df)))

Call_get_outliers == Ends("get_outliers", get_outliers(df))

\* the target and plot_type arguments tried
Targets(t) == {t.cols[i].name : i \in 1..Len(t.cols)} \cup {"zz"}
PlotTypeArgs == PlotTypes \cup {"line"}

\* plot_eda writes no table: df.drop (line 155) returns new ones and line 167
\* rebinds its own name df; it opens a figure in pyplot and may close them all
Call_plot_eda ==
    \E target \in Targets(df), plot_type \in PlotTypeArgs :
        /\ calls < MaxCalls
        /\ calls' = calls + 1
        /\ call' = [fn |-> "plot_eda", target |-> target, plot_type |-> plot_type]
        /\ LET res == plot_eda(df, target, plot_type)
           IN  /\ result' = res
               /\ figures' \in figures_left(res, figures)
        /\ UNCHANGED <<df, df0>>

Next ==
    \/ Call_get_cat_num_df
    \/ Call_get_details
    \/ Call_get_null_df
    \/ Call_get_outliers
    \/ Call_plot_eda

\* the functions that return a table or a list, on the general tables
Init == InitOn(GenTables)
NextReports ==
    \/ Call_get_cat_num_df
    \/ Call_get_details
    \/ Call_get_null_df
    \/ Call_get_outliers
Spec == Init /\ [][NextReports]_vars

InitClassify == InitOn(ClsTables)
NextClassify == Call_get_cat_num_df \/ Call_get_details
SpecClassify == InitClassify /\ [][NextClassify]_vars

InitOutliers == InitOn(OutTablesOne \/ OutTablesMany)
NextOutliers == Call_get_outliers
SpecOutliers == InitOutliers /\ [][NextOutliers]_vars

InitPlot == InitOn(PlotTables)
NextPlot == Call_plot_eda
SpecPlot == InitPlot /\ [][NextPlot]_vars

\* every function, on the general and on the wide tables
InitCalls == InitOn(GenTables \/ PlotTables)
SpecCalls == InitCalls /\ [][Next]_vars

-----------------------------------------------------------------------------
(* Vocabulary of the properties, stated on the table itself. *)

Range(s) == {s[i] : i \in 1..Len(s)}

ColumnSet(t) == Range(t.cols)

\* the position of the column named name
Pos(t, name) == CHOOSE i \in 1..Len(t.cols) : t.cols[i].name = name

\* names holds column names of t in table order, none of them twice
InTableOrder(names, t) ==
    /\ \A i \in 1..Len(names) : \E c \in ColumnSet(t) : c.name = names[i]
    /\ \A i, j \in 1..Len(names) : i < j => Pos(t, names[i]) < Pos(t, names[j])

\* the number of rows of the report rep whose field key names c
RowsFor(rep, key, c) == Cardinality({i \in 1..Len(rep) : rep[i][key] = c.name})

Missing(c) == Cardinality({i \in 1..Len(c.vals) : c.vals[i].isna})

NumericDtypes == {"int64", "float64", "bool"}

\* the k-th smallest value (k from 0) of a column without missing values
Kth(c, k) ==
    CHOOSE x \in {c.vals[i].v : i \in 1..Len(c.vals)} :
        /\ Cardinality({i \in 1..Len(c.vals) : c.vals[i].v < x}) <= k
        /\ k < Cardinality({i \in 1..Len(c.vals) : c.vals[i].v <= x})

\* four times the p-th quartile (p = 1, 3) by linear interpolation: the
\* position (n - 1) * p / 4 lies between two order statistics
Quartile4(c, p) ==
    LET n == Len(c.vals)
        at == (n - 1) * p
        lo == Kth(c, at \div 4)
        hi == Kth(c, IF at \div 4 + 1 > n - 1 THEN n - 1 ELSE at \div 4 + 1)
    IN  4 * lo + (hi - lo) * (at % 4)

\* eight times Q1 - 1.5 * (Q3 - Q1) and eight times Q3 + 1.5 * (Q3 - Q1)
Lower8(c) ==
    LET q1 == Quartile4(c, 1)
        q3 == Quartile4(c, 3)
    IN  2 * q1 - 3 * (q3 - q1)

Upper8(c) ==
    LET q1 == Quartile4(c, 1)
        q3 == Quartile4(c, 3)
    IN  2 * q3 + 3 * (q3 - q1)

\* the number of values strictly above the upper or strictly below the lower fence
Outside(c) ==
    IF Missing(c) > 0 THEN 0
    ELSE LET lower == Lower8(c)
             upper == Upper8(c)
         IN  Cardinality({i \in 1..Len(c.vals) : 8 * c.vals[i].v > upper})
             + Cardinality({i \in 1..Len(c.vals) : 8 * c.vals[i].v < lower})

\* np.percentile accepts the column: it has a row and is not bool
Measurable(c) == Len(c.vals) > 0 /\ c.dtype # "bool"

\* the rows of the report the last call returned: none when it raised
Report == IF result.exc = "none" THEN result.val ELSE <<>>

\* a fence is non-zero: NaN is non-zero
FencesNonZero(c) == Missing(c) > 0 \/ (Upper8(c) # 0 /\ Lower8(c) # 0)

-----------------------------------------------------------------------------
(* C1 *)

\* C1: the two lists get_cat_num_df returns are disjoint, each holds column
\* names of the table in table order with none twice, and together they are
\* no longer than the table has columns.
C1_ListsDisjointOrdered ==
    call.fn = "get_cat_num_df" =>
        LET num_df == result.val[1]
            cat_df == result.val[2]
        IN  /\ Range(num_df) \cap Range(cat_df) = {}
            /\ InTableOrder(num_df, df)
            /\ InTableOrder(cat_df, df)
            /\ Len(num_df) + Len(cat_df) <= Len(df.cols)

\* a table mixing two numeric, an object and another column has been classified
C1_Witness ==
    /\ call.fn = "get_cat_num_df"
    /\ Len(result.val[1]) >= 2
    /\ Len(result.val[2]) >= 1
    /\ Len(result.val[1]) + Len(result.val[2]) < Len(df.cols)

-----------------------------------------------------------------------------
(* C2, C3, C10 *)

\* C2: for every table, get_outliers returns a report that has a row for a
\* column exactly when the column is numeric, has values outside its fences
\* and both fences are non-zero; then it has one row, rows are in table order,
\* and no other column has a row.
C2_RowIffOutliersAndNonZeroFences ==
    call.fn = "get_outliers" =>
        /\ result.exc = "none"
        /\ \A c \in ColumnSet(df) :
               RowsFor(Report, "Feature", c) =
                   IF /\ c.dtype \in NumericDtypes
                      /\ Measurable(c)
                      /\ Outside(c) > 0
                      /\ FencesNonZero(c)
                   THEN 1 ELSE 0
        /\ InTableOrder([i \in 1..Len(Report) |-> Report[i].Feature], df)

\* the same, for the tables all of whose numeric columns np.percentile accepts
OutlierRowsOnMeasurableTables ==
    (\A c \in ColumnSet(df) : c.dtype \in NumericDtypes => Measurable(c)) =>
        C2_RowIffOutliersAndNonZeroFences

\* a report of one row for a table of two numeric columns, the other one with
\* outliers and a zero fence
OutlierRowsWitness ==
    /\ call.fn = "get_outliers"
    /\ Len(Report) = 1
    /\ \E c \in ColumnSet(df) :
           /\ c.dtype \in NumericDtypes
           /\ Outside(c) > 0
           /\ ~FencesNonZero(c)

\* get_outliers raised on a table with a bool column and an integer column
\* that has an outlier and non-zero fences
OutlierRaisedOnBool ==
    /\ call.fn = "get_outliers"
    /\ result.exc = "TypeError"
    /\ \E c \in ColumnSet(df) : c.dtype = "int64" /\ Outside(c) > 0 /\ FencesNonZero(c)

\* the column [1, 2, 3, 4, 100] of the example
ExampleColumn == [name |-> ColumnNames[1], dtype |-> "float64",
                  vals |-> <<Val(1), Val(2), Val(3), Val(4), Val(100)>>]

\* C3: every row of the outlier report of a column without missing values
\* carries lower = Q1 - 1.5 * (Q3 - Q1), upper = Q3 + 1.5 * (Q3 - Q1) with
\* Q1, Q3 the linearly interpolated quartiles, and the count of the values
\* strictly outside them; [1, 2, 3, 4, 100] gives lower -1, upper 7, count 1.
C3_RowsCarryIqrFences ==
    call.fn = "get_outliers" =>
        /\ \A i \in 1..Len(Report) :
               LET row == Report[i]
                   c == df.cols[Pos(df, row.Feature)]
               IN  Missing(c) = 0 =>
                       /\ row.LowerLimit = F8(Lower8(c))
                       /\ row.UpperLimit = F8(Upper8(c))
                       /\ row.TotalOutliers = Outside(c)
        /\ df.cols = <<ExampleColumn>> =>
               Report = <<[Feature |-> ExampleColumn.name,
                               TotalOutliers |-> 1,
                               UpperLimit |-> F8(8 * 7),
                               LowerLimit |-> F8(8 * (0 - 1))]>>

\* the report of the example column has been computed
C3_Witness ==
    /\ call.fn = "get_outliers"
    /\ df.cols = <<ExampleColumn>>
    /\ Len(Report) = 1

\* C10: a numeric column holding a missing value has no row in the outlier report.
C10_NoRowForColumnWithNaN ==
    call.fn = "get_outliers" =>
        \A c \in ColumnSet(df) :
            (c.dtype \in NumericDtypes /\ Missing(c) > 0) =>
                RowsFor(Report, "Feature", c) = 0

\* the report of a column holding a NaN next to 1, 1, 1, 100
C10_Witness ==
    /\ call.fn = "get_outliers"
    /\ \E c \in ColumnSet(df) :
           /\ c.dtype \in NumericDtypes
           /\ Missing(c) = 1
           /\ Cardinality({i \in 1..Len(c.vals) : c.vals[i] = Val(1)}) = 3
           /\ \E i \in 1..Len(c.vals) : c.vals[i] = Val(100)
    /\ result.exc = "none"
    /\ result.val = <<>>

-----------------------------------------------------------------------------
(* C4, C5, C9 *)

\* C4: the null report has one row for each column with a missing value and
\* for no other, in table order, and 'Total NaN' is the column's number of
\* missing values; a table without missing values has an empty report.
C4_RowsAreColumnsWithMissing ==
    call.fn = "get_null_df" =>
        LET rep == result.val
        IN  /\ \A c \in ColumnSet(df) :
                   RowsFor(rep, "Column", c) = IF Missing(c) > 0 THEN 1 ELSE 0
            /\ InTableOrder([i \in 1..Len(rep) |-> rep[i].Column], df)
            /\ \A i \in 1..Len(rep) :
                   /\ rep[i].TotalNaN = Missing(df.cols[Pos(df, rep[i].Column)])
                   /\ rep[i].TotalNaN >= 1
            /\ (\A c \in ColumnSet(df) : Missing(c) = 0) => rep = <<>>

\* a report of two rows with different counts
C4_Witness ==
    /\ call.fn = "get_null_df"
    /\ Len(result.val) = 2
    /\ result.val[1].TotalNaN # result.val[2].TotalNaN

\* C5: for a table with at least one row, '%' is (missing / rows) * 100 and
\* lies between 0 and 100.
C5_PercentOfRows ==
    (call.fn = "get_null_df" /\ df.nrows >= 1) =>
        \A i \in 1..Len(result.val) :
            LET pct == result.val[i].Pct
                c == df.cols[Pos(df, result.val[i].Column)]
            IN  /\ pct.den > 0
                /\ pct.num * df.nrows = Missing(c) * 100 * pct.den
                /\ 0 <= pct.num
                /\ pct.num <= 100 * pct.den

\* a report with a row of 50 % and a row of 100 %
C5_Witness ==
    /\ call.fn = "get_null_df"
    /\ \E i, j \in 1..Len(result.val) :
           /\ result.val[i].Pct.num = 50 * result.val[i].Pct.den
           /\ result.val[j].Pct.num = 100 * result.val[j].Pct.den

\* C9 as claimed: the label is 'Numerical' exactly for the columns of the
\* numeric list and 'Categorical' exactly for those of the categorical list.
C9_LabelAgreesWithBothLists ==
    call.fn = "get_null_df" =>
        \A i \in 1..Len(result.val) :
            LET row == result.val[i]
                lists == get_cat_num_df(df)
            IN  /\ row.Type = "Numerical" <=> row.Column \in Range(lists[1])
                /\ row.Type = "Categorical" <=> row.Column \in Range(lists[2])

\* C9 amended: the label is 'Numerical' exactly for the columns of the numeric
\* list and 'Categorical' for every other column, those of the categorical
\* list and those of neither list alike.
C9_LabelFollowsNumericList ==
    call.fn = "get_null_df" =>
        \A i \in 1..Len(result.val) :
            LET row == result.val[i]
                lists == get_cat_num_df(df)
            IN  /\ row.Type \in {"Numerical", "Categorical"}
                /\ row.Type = "Numerical" <=> row.Column \in Range(lists[1])
                /\ row.Column \in Range(lists[2]) => row.Type = "Categorical"

\* a report with a numeric row, and a 'Categorical' row of a column of neither list
C9_Witness ==
    /\ call.fn = "get_null_df"
    /\ Len(result.val) = 2
    /\ \E i \in 1..2 : result.val[i].Type = "Numerical"
    /\ \E i \in 1..2 :
           /\ result.val[i].Type = "Categorical"
           /\ result.val[i].Column \notin Range(get_cat_num_df(df)[2])

-----------------------------------------------------------------------------
(* C8 *)

\* what a call returns or raises when it is the first call on the table t
FirstCall(c, t) ==
    CASE c.fn = "init" -> NoResult
      [] c.fn = "get_cat_num_df" -> Returned(get_cat_num_df(t))
      [] c.fn = "get_details" -> Returned(get_details(t))
      [] c.fn = "get_null_df" -> Returned(get_null_df(t))
      [] c.fn = "get_outliers" -> get_outliers(t)
      [] c.fn = "plot_eda" -> plot_eda(t, c.target, c.plot_type)

\* C8: after any sequence of calls the caller's table is the table it built,
\* the last call returned what it returns as the first call on that table,
\* and no state is carried over to the next call: pyplot holds no figure.
C8_TableUnchangedNoStateCarried ==
    /\ df = df0
    /\ result = FirstCall(call, df0)
    /\ figures = 0

-----------------------------------------------------------------------------
(* C6, C7 *)

\* the numeric feature columns of a plot_eda call: all but the target
NumericFeatures(t, target) ==
    {c \in ColumnSet(t) : c.dtype \in NumericDtypes /\ c.name # target}

\* C6: plot_eda raises ValueError for a plot_type other than 'scatter', 'box'
\* and 'hist', on a table with the target column and a numeric feature.
C6_RaisesValueError ==
    (/\ call.fn = "plot_eda"
     /\ call.plot_type \notin {"scatter", "box", "hist"}
     /\ \E c \in ColumnSet(df) : c.name = call.target
     /\ NumericFeatures(df, call.target) # {}) =>
        result.exc = "ValueError"

\* C7: with n >= 1 numeric features plot_eda lays out min(n, 5) columns and
\* ceil(n / 5) rows, draws feature i in cell (i div ncols, i mod ncols), and
\* hides exactly the cells n .. nrows * ncols - 1.
C7_EveryFeatureInItsCell ==
    (/\ call.fn = "plot_eda"
     /\ \E c \in ColumnSet(df) : c.name = call.target
     /\ NumericFeatures(df, call.target) # {}) =>
        LET n == Cardinality(NumericFeatures(df, call.target))
            ncols == IF n < 5 THEN n ELSE 5
            nrows == (n + 4) \div 5
        IN  /\ result.exc = "none"
            /\ result.val.ncols = ncols
            /\ result.val.nrows = nrows
            /\ Len(result.val.drawn) = n
            /\ \A i \in 0..(n - 1) :
                   /\ result.val.drawn[i + 1].cell = <<i \div ncols, i % ncols>>
                   /\ result.val.drawn[i + 1].cell[1] < nrows
            /\ InTableOrder([i \in 1..n |-> result.val.drawn[i].feature], df)
            /\ Range(result.val.hidden) =
                   {<<i \div ncols, i % ncols>> : i \in n..(nrows * ncols - 1)}

====
